---- MODULE Spec2Model ----
(***************************************************************************)
(* ImageColorizer: the rule-based colorizers of                            *)
(*   src/colorizers/hsv_colorizer.py          (colorize_hsv,               *)
(*                                             colorize_hsv_advanced)      *)
(*   src/colorizers/pseudocolor_colorizer.py  (colorize_pseudocolor,       *)
(*                                             colorize_pseudocolor_multiple, *)
(*                                             get_available_colormaps)    *)
(*                                                                         *)
(* Numbers.  A sample is a rational <<n, d>> in lowest terms, d > 0.  The  *)
(* variable fp names the arithmetic a run is evaluated under:              *)
(*   "exact"     every operation of the source is carried out exactly;     *)
(*   "binary32"  every operation the source carries out on float32 arrays  *)
(*               (astype(np.float32) onwards, up to the assignment into    *)
(*               the float64 HSV array) is rounded to the nearest binary32 *)
(*               value, ties to even.  The float64 operations of hsv2rgb   *)
(*               stay exact: on the inputs enumerated for this mode every  *)
(*               intermediate value is a dyadic rational whose numerator   *)
(*               fits in 31 bits, which binary64 represents exactly.       *)
(* rgb2gray's sum of three products depends, under binary32, on the order  *)
(* the library adds them in; three-channel inputs are enumerated under     *)
(* exact arithmetic only.                                                  *)
(***************************************************************************)
EXTENDS Integers, Sequences, FiniteSets, TLC

VARIABLES
    fp,              \* "exact" | "binary32": the arithmetic of the run
    COLORMAP_MODES,  \* the module-level registry, pseudocolor_colorizer.py:14
    stdout,          \* the lines print() wrote during the last call
    pc,              \* "idle" (the caller is about to call) | "returned"
    call,            \* the call the caller made last
    ret,             \* what that call did: a returned value or a raised error
    locals           \* the local variables of that call when it ended

vars == <<fp, COLORMAP_MODES, stdout, pc, call, ret, locals>>

(***************************************************************************)
(* Rational arithmetic                                                     *)
(***************************************************************************)
Abs(n) == IF n < 0 THEN -n ELSE n

RECURSIVE Gcd(_, _)
Gcd(a, b) == IF b = 0 THEN a ELSE Gcd(b, a % b)

RECURSIVE Pow2(_)
Pow2(k) == IF k = 0 THEN 1 ELSE 2 * Pow2(k - 1)

\* The rational n/d (d # 0) in lowest terms with a positive denominator.
R(n, d) ==
    LET g == Gcd(Abs(n), Abs(d))
        s == IF d < 0 THEN -1 ELSE 1
    IN  <<s * (n \div g), s * (d \div g)>>

Z(n) == <<n, 1>>

RNeg(a) == <<-a[1], a[2]>>

RAdd(a, b) ==
    LET g == Gcd(a[2], b[2])
    IN  R(a[1] * (b[2] \div g) + b[1] * (a[2] \div g), (a[2] \div g) * b[2])

RSub(a, b) == RAdd(a, RNeg(b))

\* Cross-reduced before multiplying, so that no intermediate product is
\* larger than the numerator and denominator of the result.
RMul(a, b) ==
    LET g1 == Gcd(Abs(a[1]), b[2])
        g2 == Gcd(Abs(b[1]), a[2])
    IN  IF a[1] = 0 \/ b[1] = 0 THEN Z(0)
        ELSE <<(a[1] \div g1) * (b[1] \div g2), (a[2] \div g2) * (b[2] \div g1)>>

RInv(a) == IF a[1] < 0 THEN <<-a[2], -a[1]>> ELSE <<a[2], a[1]>>

RDiv(a, b) == RMul(a, RInv(b))

RSign(a) == IF a[1] < 0 THEN -1 ELSE IF a[1] = 0 THEN 0 ELSE 1

\* Compared by cross-multiplication: the denominators are positive.
RLt(a, b) == a[1] * b[2] < b[1] * a[2]

RLe(a, b) == a[1] * b[2] <= b[1] * a[2]

\* np.floor
RFloor(a) == a[1] \div a[2]

\* C truncation toward zero (fmod, astype(int))
RTrunc(a) == IF a[1] < 0 THEN -((-a[1]) \div a[2]) ELSE a[1] \div a[2]

\* np.clip(x, 0, 1)
clip(x) == IF x[1] < 0 THEN Z(0) ELSE IF x[1] > x[2] THEN Z(1) ELSE x

InUnit(x) == 0 <= x[1] /\ x[1] <= x[2]

(***************************************************************************)
(* binary32 rounding                                                       *)
(***************************************************************************)
\* np.float32: 24 significant bits
MantBits == 24

\* floor(log2(a/d)) for a >= d > 0
RECURSIVE Log2Up(_, _)
Log2Up(a, d) == IF a \div 2 >= d THEN 1 + Log2Up(a \div 2, d) ELSE 0

\* the least j with a * 2^j >= d, for a > 0, d > 0
RECURSIVE Log2Down(_, _)
Log2Down(a, d) == IF a >= d THEN 0 ELSE 1 + Log2Down(a, (d + 1) \div 2)

\* floor(log2(a/d)) for a > 0, d > 0
Exponent(a, d) == IF a >= d THEN Log2Up(a, d) ELSE -Log2Down(a, d)

\* the largest g <= k with 2^g dividing d
RECURSIVE TwoPart(_, _)
TwoPart(d, k) == IF k > 0 /\ d % 2 = 0 THEN 1 + TwoPart(d \div 2, k - 1) ELSE 0

\* a/b rounded to the nearest integer, ties to even (a >= 0, b > 0)
RoundDiv(a, b) ==
    LET q == a \div b
        r == a % b
    IN  IF r > b - r \/ (r = b - r /\ q % 2 = 1) THEN q + 1 ELSE q

\* The significand of a/d at the scale 2^-k: a * 2^k / d rounded, 2^g being
\* a power of two that divides d and is taken out first.
Significand(a, d, k, g) ==
    IF k >= 0 THEN RoundDiv(a * Pow2(k - g), d \div Pow2(g))
    ELSE RoundDiv(a, d * Pow2(-k))

\* s * m * 2^-k
Scaled(s, m, k) == IF k >= 0 THEN R(s * m, Pow2(k)) ELSE Z(s * m * Pow2(-k))

\* s * a/d rounded to 24 significant bits, 2^-k being the unit in the last
\* place of a/d
RoundAt(s, a, d, k) ==
    Scaled(s, Significand(a, d, k, IF k > 0 THEN TwoPart(d, k) ELSE 0), k)

\* The binary32 value nearest to the rational x (normal range).
Fl32(x) ==
    IF x[1] = 0 THEN x
    ELSE RoundAt(IF x[1] < 0 THEN -1 ELSE 1, Abs(x[1]), x[2],
                 (MantBits - 1) - Exponent(Abs(x[1]), x[2]))

\* The result of one float32 array operation.
Rnd(x) == IF fp = "binary32" THEN Fl32(x) ELSE x

(***************************************************************************)
(* Arrays.  An array is [shape, data]: data holds the samples flattened in *)
(* row-major order, channel last, as numpy stores them.                    *)
(***************************************************************************)
Array(shape, data) == [shape |-> shape, data |-> data]

ndim(a) == Len(a.shape)

RECURSIVE Prod(_)
Prod(s) == IF s = <<>> THEN 1 ELSE s[1] * Prod(Tail(s))

size(a) == Prod(a.shape)

Range(s) == {s[i] : i \in DOMAIN s}

\* ndarray.max() of a non-empty array
ArrayMax(a) == CHOOSE x \in Range(a.data) : \A y \in Range(a.data) : RLe(y, x)

\* What a call did: it returned a value or raised an error, leaving the
\* given local variables and having printed the given lines.
Return(value, lcl, prints) ==
    [ret |-> [kind |-> "return", value |-> value], locals |-> lcl, prints |-> prints]

\* A call that turns every error into the return of an empty image
swallow(exc, by, lcl) ==
    [ret |-> [kind |-> "return", value |-> Array(<<0, 0, 3>>, <<>>)],
     locals |-> lcl, prints |-> <<>>]

Raise(exc, by, lcl) ==
    [ret |-> [kind |-> "raise", exc |-> exc, by |-> by], locals |-> lcl, prints |-> <<>>]

(***************************************************************************)
(* The steps shared by the three colorizers                                *)
(***************************************************************************)
Scale255 == 255

\* A normalization that divides by 100 where the source divides by 255
normalized_by_100(img_rgb) ==
    IF RLt(Z(1), ArrayMax(img_rgb))
    THEN Array(img_rgb.shape,
               [i \in DOMAIN img_rgb.data |-> Rnd(RDiv(Rnd(img_rgb.data[i]), Z(100)))])
    ELSE Array(img_rgb.shape,
               [i \in DOMAIN img_rgb.data |-> Rnd(img_rgb.data[i])])

\* A normalization that tests each sample on its own, not the maximum
normalized_per_sample(img_rgb) ==
    Array(img_rgb.shape,
          [i \in DOMAIN img_rgb.data |->
              IF RLt(Z(1), img_rgb.data[i])
              THEN Rnd(RDiv(Rnd(img_rgb.data[i]), Z(Scale255)))
              ELSE Rnd(img_rgb.data[i])])

\* hsv_colorizer.py:27-30, 83-86; pseudocolor_colorizer.py:53-56
img_rgb_normalized(img_rgb) ==
    IF RLt(Z(1), ArrayMax(img_rgb))
    THEN Array(img_rgb.shape,
               [i \in DOMAIN img_rgb.data |->
                   Rnd(RDiv(Rnd(img_rgb.data[i]), Z(Scale255)))])
    ELSE Array(img_rgb.shape,
               [i \in DOMAIN img_rgb.data |-> Rnd(img_rgb.data[i])])

\* skimage.color.rgb2gray: the luminance weights, in ten-thousandths
LumaR == 2125
LumaG == 7154
LumaB == 721

luma(r, g, b) ==
    Rnd(RAdd(Rnd(RAdd(Rnd(RMul(Rnd(R(LumaR, 10000)), r)),
                      Rnd(RMul(Rnd(R(LumaG, 10000)), g)))),
             Rnd(RMul(Rnd(R(LumaB, 10000)), b))))

\* skimage.color.rgb2gray of an array whose last axis has length 3
rgb2gray(rgb) ==
    Array(SubSeq(rgb.shape, 1, Len(rgb.shape) - 1),
          [j \in 1..(Len(rgb.data) \div 3) |->
              luma(rgb.data[3 * j - 2], rgb.data[3 * j - 1], rgb.data[3 * j])])

\* hsv_colorizer.py:33-37, 89-92; pseudocolor_colorizer.py:59-62
img_gray(normalized) ==
    IF ndim(normalized) = 3 THEN rgb2gray(normalized) ELSE normalized

\* The error, if any, that the shared steps raise on img_rgb: ndarray.max()
\* has no identity on a zero-size array, and rgb2gray wants 3 channels.
InputError(img_rgb) ==
    IF size(img_rgb) = 0 THEN "max"
    ELSE IF ndim(img_rgb) = 3 /\ img_rgb.shape[3] # 3 THEN "rgb2gray"
    ELSE "none"

(***************************************************************************)
(* hsv_colorizer.py                                                        *)
(***************************************************************************)
\* The literals of lines 48 and 100, as a float32 array operation reads them
HueBase == Rnd(R(6, 10))

HueSlope == Rnd(R(45, 100))

\* line 48: 0.6 - 0.45 * img_gray
H_basic(I) == Rnd(RSub(HueBase, Rnd(RMul(HueSlope, I))))

\* line 52: 4 * img_gray * (1 - img_gray)
S_basic(I) == Rnd(RMul(Rnd(RMul(Z(4), I)), Rnd(RSub(Z(1), I))))

\* np.remainder(x, 1.0): fmod, then + 1.0 when the remainder is negative
Wrap(m) == IF RSign(m) < 0 THEN Rnd(RAdd(m, Z(1))) ELSE m

Mod1(x) == Wrap(RSub(x, Z(RTrunc(x))))

\* A hue that moves by half of hue_shift
H_half_shift(I, hue_shift) ==
    Mod1(Rnd(RAdd(H_basic(I), Rnd(RDiv(hue_shift, Z(2))))))

\* line 100: (0.6 - 0.45 * img_gray + hue_shift) % 1.0
H_advanced(I, hue_shift) == Mod1(Rnd(RAdd(H_basic(I), Rnd(hue_shift))))

\* A saturation without the clip of line 103
S_unclamped(I, saturation_boost) == Rnd(RMul(S_basic(I), Rnd(saturation_boost)))

\* line 103: np.clip(4 * img_gray * (1 - img_gray) * saturation_boost, 0, 1)
S_advanced(I, saturation_boost) ==
    clip(Rnd(RMul(S_basic(I), Rnd(saturation_boost))))

\* skimage.color.hsv2rgb, line "hi = np.floor(h * 6)"
Hi(h) == RFloor(RMul(h, Z(6)))

\* The values astype(np.uint8) % 6 may give for hi: the conversion of a
\* float outside 0..255 to uint8 is undefined, and any sector may result.
SectorsOf(hi) == IF hi \in 0..255 THEN {hi % 6} ELSE 0..5

Sectors(h) == SectorsOf(Hi(h))

\* skimage.color.hsv2rgb: the choice np.choose makes among the six stacks
hsv2rgb_choose(v, p, q, t, sector) ==
    CASE sector = 0 -> <<v, t, p>>
      [] sector = 1 -> <<q, v, p>>
      [] sector = 2 -> <<p, v, t>>
      [] sector = 3 -> <<p, q, v>>
      [] sector = 4 -> <<t, p, v>>
      [] OTHER      -> <<v, p, q>>

\* skimage.color.hsv2rgb: p, q and t from f = h * 6 - hi
hsv2rgb_f(f, s, v, sector) ==
    hsv2rgb_choose(v,
                   RMul(v, RSub(Z(1), s)),
                   RMul(v, RSub(Z(1), RMul(f, s))),
                   RMul(v, RSub(Z(1), RMul(RSub(Z(1), f), s))),
                   sector)

\* skimage.color.hsv2rgb on one pixel, sector being astype(np.uint8) % 6
hsv2rgb_pixel(h, s, v, sector) ==
    hsv2rgb_f(RSub(RMul(h, Z(6)), Z(Hi(h))), s, v, sector)

\* skimage.color.hsv2rgb on the (H, W, 3) array built from the three
\* channels; cast[j] is the sector of pixel j
hsv2rgb(shape, H_channel, S_channel, V, cast) ==
    Array(shape \o <<3>>,
          [i \in 1..(3 * Len(V)) |->
              hsv2rgb_pixel(H_channel[(i + 2) \div 3], S_channel[(i + 2) \div 3],
                            V[(i + 2) \div 3],
                            cast[(i + 2) \div 3])[((i - 1) % 3) + 1]])

\* An image returned as converted, without the final clip
unclipped(a) == a

\* np.clip(img, 0, 1)
clip_array(a) == Array(a.shape, [i \in DOMAIN a.data |-> clip(a.data[i])])

\* The sector sequences the conversion may use for a hue channel
Casts(H_channel) ==
    {c \in [DOMAIN H_channel -> 0..5] :
        \A j \in DOMAIN H_channel : c[j] \in Sectors(H_channel[j])}

\* A basic saturation channel that is 1 everywhere
saturation_full(gry) == [j \in DOMAIN gry.data |-> Z(1)]

\* The hue and saturation channels lines 48, 52, 100 and 103 compute from
\* the grey image
hue_channel(gry) == [j \in DOMAIN gry.data |-> H_basic(gry.data[j])]

saturation_channel(gry) == [j \in DOMAIN gry.data |-> S_basic(gry.data[j])]

hue_channel_advanced(gry, hue_shift) ==
    [j \in DOMAIN gry.data |-> H_advanced(gry.data[j], hue_shift)]

saturation_channel_advanced(gry, saturation_boost) ==
    [j \in DOMAIN gry.data |-> S_advanced(gry.data[j], saturation_boost)]

\* Lines 54-67 and 105-115: the HSV array is filled from the three
\* channels, converted and clipped, and the clipped image returned.
hsv_image(img_rgb, nrm, gry, H_channel, S_channel, cast) ==
    Return(clip_array(hsv2rgb(gry.shape, H_channel, S_channel, gry.data, cast)),
           [img_rgb |-> img_rgb, img_rgb_normalized |-> nrm, img_gray |-> gry,
            H_channel |-> H_channel, S_channel |-> S_channel, V |-> gry.data],
           <<>>)

\* colorize_hsv, lines 39-67, on the grey image
hsv_of_gray(img_rgb, nrm, gry, cast) ==
    hsv_image(img_rgb, nrm, gry,
              hue_channel(gry), saturation_channel(gry), cast)

\* colorize_hsv, lines 32-67, on the normalized image
hsv_of_normalized(img_rgb, nrm, cast) ==
    hsv_of_gray(img_rgb, nrm, img_gray(nrm), cast)

\* colorize_hsv, lines 15-67
colorize_hsv(img_rgb, cast) ==
    IF InputError(img_rgb) = "max"
    THEN Raise("ValueError", "max", [img_rgb |-> img_rgb])
    ELSE IF InputError(img_rgb) = "rgb2gray"
    THEN Raise("ValueError", "rgb2gray",
               [img_rgb |-> img_rgb,
                img_rgb_normalized |-> img_rgb_normalized(img_rgb)])
    ELSE hsv_of_normalized(img_rgb, img_rgb_normalized(img_rgb), cast)

\* colorize_hsv_advanced, lines 94-115, on the grey image
hsv_advanced_of_gray(img_rgb, nrm, gry, hue_shift, saturation_boost, cast) ==
    hsv_image(img_rgb, nrm, gry,
              hue_channel_advanced(gry, hue_shift),
              saturation_channel_advanced(gry, saturation_boost), cast)

\* colorize_hsv_advanced, lines 88-115, on the normalized image
hsv_advanced_of_normalized(img_rgb, nrm, hue_shift, saturation_boost, cast) ==
    hsv_advanced_of_gray(img_rgb, nrm, img_gray(nrm), hue_shift,
                         saturation_boost, cast)

\* colorize_hsv_advanced, lines 70-115
colorize_hsv_advanced(img_rgb, hue_shift, saturation_boost, cast) ==
    IF InputError(img_rgb) = "max"
    THEN Raise("ValueError", "max", [img_rgb |-> img_rgb])
    ELSE IF InputError(img_rgb) = "rgb2gray"
    THEN Raise("ValueError", "rgb2gray",
               [img_rgb |-> img_rgb,
                img_rgb_normalized |-> img_rgb_normalized(img_rgb)])
    ELSE hsv_advanced_of_normalized(img_rgb, img_rgb_normalized(img_rgb),
                                    hue_shift, saturation_boost, cast)

\* The hue channels of the two colorizers on a well-formed input
HueOf(img_rgb) == hue_channel(img_gray(img_rgb_normalized(img_rgb)))

HueAdvancedOf(img_rgb, hue_shift) ==
    hue_channel_advanced(img_gray(img_rgb_normalized(img_rgb)), hue_shift)

(***************************************************************************)
(* pseudocolor_colorizer.py                                                *)
(*                                                                         *)
(* A Python str is the sequence of its characters.                         *)
(***************************************************************************)
name_jet == <<"j", "e", "t">>

name_hot == <<"h", "o", "t">>

name_cool == <<"c", "o", "o", "l">>

name_viridis == <<"v", "i", "r", "i", "d", "i", "s">>

name_parula == <<"p", "a", "r", "u", "l", "a">>

name_plasma == <<"p", "l", "a", "s", "m", "a">>

name_inferno == <<"i", "n", "f", "e", "r", "n", "o">>

name_magma == <<"m", "a", "g", "m", "a">>

name_spring == <<"s", "p", "r", "i", "n", "g">>

name_summer == <<"s", "u", "m", "m", "e", "r">>

name_autumn == <<"a", "u", "t", "u", "m", "n">>

name_winter == <<"w", "i", "n", "t", "e", "r">>

name_rainbow == <<"r", "a", "i", "n", "b", "o", "w">>

name_turbo == <<"t", "u", "r", "b", "o">>

name_hsv == <<"h", "s", "v">>

name_seismic == <<"s", "e", "i", "s", "m", "i", "c">>

name_terrain == <<"t", "e", "r", "r", "a", "i", "n">>

\* names a caller may pass that are no key of the registry as written
name_JET == <<"J", "E", "T">>

name_sepia == <<"s", "e", "p", "i", "a">>

UpperCase == <<"A", "B", "C", "D", "E", "F", "G", "H", "I", "J", "K", "L", "M",
               "N", "O", "P", "Q", "R", "S", "T", "U", "V", "W", "X", "Y", "Z">>

LowerCase == <<"a", "b", "c", "d", "e", "f", "g", "h", "i", "j", "k", "l", "m",
               "n", "o", "p", "q", "r", "s", "t", "u", "v", "w", "x", "y", "z">>

\* str.lower()
lower(str) ==
    [i \in DOMAIN str |->
        IF \E k \in DOMAIN UpperCase : UpperCase[k] = str[i]
        THEN LowerCase[CHOOSE k \in DOMAIN UpperCase : UpperCase[k] = str[i]]
        ELSE str[i]]

\* COLORMAP_MODES as the module builds it, lines 14-32: the keys in
\* insertion order, each with the matplotlib colormap it names.
RegistryAtImport ==
    << <<name_jet, "cm.jet">>,
       <<name_hot, "cm.hot">>,
       <<name_cool, "cm.cool">>,
       <<name_viridis, "cm.viridis">>,
       <<name_parula, "cm.viridis">>,
       <<name_plasma, "cm.plasma">>,
       <<name_inferno, "cm.inferno">>,
       <<name_magma, "cm.magma">>,
       <<name_spring, "cm.spring">>,
       <<name_summer, "cm.summer">>,
       <<name_autumn, "cm.autumn">>,
       <<name_winter, "cm.winter">>,
       <<name_rainbow, "cm.rainbow">>,
       <<name_turbo, "cm.turbo">>,
       <<name_hsv, "cm.hsv">>,
       <<name_seismic, "cm.seismic">>,
       <<name_terrain, "cm.terrain">> >>

\* list(d.keys())
keys(d) == [i \in DOMAIN d |-> d[i][1]]

\* key in d
has_key(d, key) == \E i \in DOMAIN d : d[i][1] = key

\* d[key]
lookup(d, key) == d[CHOOSE i \in DOMAIN d : d[i][1] = key][2]

(***************************************************************************)
(* matplotlib colormaps.  A colormap is a lookup table of N colours; the   *)
(* table of each is given by breakpoints <<x, y>> in thousandths per       *)
(* channel, joined linearly and sampled at i/(N-1).  The breakpoints are   *)
(* matplotlib's data to three decimals (the listed maps viridis, plasma,   *)
(* inferno, magma and turbo, and the function-defined rainbow, at five     *)
(* positions).                                                             *)
(***************************************************************************)
LutSize == 256

Pts5(a, b, c, d, e) == <<<<0, a>>, <<250, b>>, <<500, c>>, <<750, d>>, <<1000, e>>>>

Ramp(a, b) == <<<<0, a>>, <<1000, b>>>>

Breakpoints(cmap) ==
    CASE cmap = "cm.jet" ->
           << <<<<0, 0>>, <<350, 0>>, <<660, 1000>>, <<890, 1000>>, <<1000, 500>>>>,
              <<<<0, 0>>, <<125, 0>>, <<375, 1000>>, <<640, 1000>>, <<910, 0>>, <<1000, 0>>>>,
              <<<<0, 500>>, <<110, 1000>>, <<340, 1000>>, <<650, 0>>, <<1000, 0>>>> >>
      [] cmap = "cm.hot" ->
           << <<<<0, 42>>, <<365, 1000>>, <<1000, 1000>>>>,
              <<<<0, 0>>, <<365, 0>>, <<746, 1000>>, <<1000, 1000>>>>,
              <<<<0, 0>>, <<746, 0>>, <<1000, 1000>>>> >>
      [] cmap = "cm.cool"   -> <<Ramp(0, 1000), Ramp(1000, 0), Ramp(1000, 1000)>>
      [] cmap = "cm.spring" -> <<Ramp(1000, 1000), Ramp(0, 1000), Ramp(1000, 0)>>
      [] cmap = "cm.summer" -> <<Ramp(0, 1000), Ramp(500, 1000), Ramp(400, 400)>>
      [] cmap = "cm.autumn" -> <<Ramp(1000, 1000), Ramp(0, 1000), Ramp(0, 0)>>
      [] cmap = "cm.winter" -> <<Ramp(0, 0), Ramp(0, 1000), Ramp(1000, 500)>>
      [] cmap = "cm.viridis" ->
           <<Pts5(267, 229, 128, 369, 993), Pts5(5, 322, 567, 789, 906),
             Pts5(329, 546, 551, 383, 144)>>
      [] cmap = "cm.plasma" ->
           <<Pts5(50, 494, 798, 973, 940), Pts5(30, 12, 280, 585, 975),
             Pts5(528, 658, 470, 254, 131)>>
      [] cmap = "cm.inferno" ->
           <<Pts5(1, 342, 736, 978, 988), Pts5(0, 62, 216, 558, 998),
             Pts5(14, 429, 330, 35, 645)>>
      [] cmap = "cm.magma" ->
           <<Pts5(1, 317, 716, 987, 987), Pts5(0, 71, 215, 536, 991),
             Pts5(14, 485, 475, 382, 750)>>
      [] cmap = "cm.rainbow" ->
           <<Pts5(500, 0, 500, 1000, 1000), Pts5(0, 707, 1000, 707, 0),
             Pts5(1000, 924, 707, 383, 0)>>
      [] cmap = "cm.turbo" ->
           <<Pts5(190, 159, 644, 984, 480), Pts5(72, 736, 990, 494, 16),
             Pts5(232, 923, 234, 128, 11)>>
      [] cmap = "cm.hsv" ->
           << <<<<0, 1000>>, <<159, 1000>>, <<349, 0>>, <<667, 0>>, <<857, 1000>>, <<1000, 1000>>>>,
              <<<<0, 0>>, <<175, 1000>>, <<508, 1000>>, <<683, 0>>, <<1000, 0>>>>,
              <<<<0, 0>>, <<333, 0>>, <<508, 1000>>, <<841, 1000>>, <<1000, 94>>>> >>
      [] cmap = "cm.seismic" ->
           <<Pts5(0, 0, 1000, 1000, 500), Pts5(0, 0, 1000, 0, 0),
             Pts5(300, 1000, 1000, 0, 0)>>
      [] OTHER ->   \* cm.terrain
           << <<<<0, 200>>, <<150, 0>>, <<250, 0>>, <<500, 1000>>, <<750, 500>>, <<1000, 1000>>>>,
              <<<<0, 200>>, <<150, 600>>, <<250, 800>>, <<500, 1000>>, <<750, 360>>, <<1000, 1000>>>>,
              <<<<0, 600>>, <<150, 1000>>, <<250, 400>>, <<500, 600>>, <<750, 330>>, <<1000, 1000>>>> >>

\* The value at i/(N-1) of the line from breakpoint p0 to breakpoint p1
Segment(p0, p1, i) ==
    R(p0[2] * (p1[1] - p0[1]) * (LutSize - 1)
        + (1000 * i - (LutSize - 1) * p0[1]) * (p1[2] - p0[2]),
      1000 * (LutSize - 1) * (p1[1] - p0[1]))

SegmentAt(pts, k, i) == Segment(pts[k], pts[k + 1], i)

\* The value at i/(N-1) of the line through the breakpoints around it
Interp(pts, i) ==
    SegmentAt(pts,
              CHOOSE k \in 1..(Len(pts) - 1) :
                  /\ pts[k][1] * (LutSize - 1) <= 1000 * i
                  /\ 1000 * i <= pts[k + 1][1] * (LutSize - 1),
              i)

LutEntry(channels, i) ==
    <<Interp(channels[1], i), Interp(channels[2], i), Interp(channels[3], i), Z(1)>>

\* Entry i (0 <= i < N) of the colormap's table: its RGBA colour
Lut(cmap, i) == LutEntry(Breakpoints(cmap), i)

\* Colormap.__call__ on one float sample: the index into the table.  Below
\* 0 is the under colour and above N-1 the over colour, which are the first
\* and the last entry; X = 1 is the last entry.
IndexOf(xa) ==
    IF RSign(xa) < 0 THEN 0
    ELSE IF RLe(Z(LutSize), xa) THEN LutSize - 1
    ELSE RTrunc(xa)

LutIndex(X) == IndexOf(Rnd(RMul(X, Z(LutSize))))

\* colormap(img_gray)[:, :, :3], line 73
apply_colormap(cmap, gray) ==
    Array(gray.shape \o <<3>>,
          [i \in 1..(3 * Len(gray.data)) |->
              Lut(cmap, LutIndex(gray.data[(i + 2) \div 3]))[((i - 1) % 3) + 1]])

\* A fallback to "hot" where the source falls back to "jet"
fallback_hot(registry, colormap_mode) ==
    IF ~has_key(registry, lower(colormap_mode)) THEN name_hot ELSE colormap_mode

\* lines 65-67: the name the lookup of line 69 uses
effective_mode(registry, colormap_mode) ==
    IF ~has_key(registry, lower(colormap_mode)) THEN name_jet ELSE colormap_mode

\* line 66: the line printed for an unknown name
warning(colormap_mode) == <<"Warning: Unknown colormap", colormap_mode>>

\* lines 65-66: what the call prints
printed(registry, colormap_mode) ==
    IF ~has_key(registry, lower(colormap_mode))
    THEN <<warning(colormap_mode)>> ELSE <<>>

\* colorize_pseudocolor, lines 69-78: lookup, mapping, clip and return
pseudocolor_image(registry, img_rgb, nrm, gry, mode, prints) ==
    Return(clip_array(apply_colormap(lookup(registry, lower(mode)), gry)),
           [img_rgb |-> img_rgb, img_rgb_normalized |-> nrm, img_gray |-> gry,
            colormap_mode |-> mode, colormap |-> lookup(registry, lower(mode))],
           prints)

\* colorize_pseudocolor, lines 58-78, on the normalized image
pseudocolor_of_normalized(registry, img_rgb, nrm, colormap_mode) ==
    pseudocolor_image(registry, img_rgb, nrm, img_gray(nrm),
                      effective_mode(registry, colormap_mode),
                      printed(registry, colormap_mode))

\* colorize_pseudocolor, lines 35-78
colorize_pseudocolor(registry, img_rgb, colormap_mode) ==
    IF InputError(img_rgb) = "max"
    THEN Raise("ValueError", "max", [img_rgb |-> img_rgb])
    ELSE IF InputError(img_rgb) = "rgb2gray"
    THEN Raise("ValueError", "rgb2gray",
               [img_rgb |-> img_rgb,
                img_rgb_normalized |-> img_rgb_normalized(img_rgb)])
    ELSE pseudocolor_of_normalized(registry, img_rgb,
                                   img_rgb_normalized(img_rgb), colormap_mode)

\* A dict that stores each value under the lower-cased name
dict_set_lower(d, key, value) ==
    IF has_key(d, lower(key))
    THEN [i \in DOMAIN d |-> IF d[i][1] = lower(key) THEN <<lower(key), value>> ELSE d[i]]
    ELSE Append(d, <<lower(key), value>>)

\* results[mode] = value on a dict kept in insertion order
dict_set(d, key, value) ==
    IF has_key(d, key)
    THEN [i \in DOMAIN d |-> IF d[i][1] = key THEN <<key, value>> ELSE d[i]]
    ELSE Append(d, <<key, value>>)

\* line 93
DefaultModes == <<name_jet, name_hot, name_viridis, name_plasma>>

\* The loop of lines 95-97 from the given results on: an error of a call
\* ends it, and what the calls printed before stays printed.  one is the
\* outcome of the call of line 96 for the first of modes.
RECURSIVE pseudocolor_loop(_, _, _, _, _)
RECURSIVE loop_body(_, _, _, _, _, _)
loop_body(registry, img_rgb, modes, results, prints, one) ==
    IF one.ret.kind = "raise"
    THEN [ret |-> one.ret,
          locals |-> [img_rgb |-> img_rgb, results |-> results],
          prints |-> prints \o one.prints]
    ELSE pseudocolor_loop(registry, img_rgb, Tail(modes),
                          dict_set(results, Head(modes), one.ret.value),
                          prints \o one.prints)

pseudocolor_loop(registry, img_rgb, modes, results, prints) ==
    IF modes = <<>>
    THEN Return(results, [img_rgb |-> img_rgb, results |-> results], prints)
    ELSE loop_body(registry, img_rgb, modes, results, prints,
                   colorize_pseudocolor(registry, img_rgb, Head(modes)))

\* colorize_pseudocolor_multiple, lines 81-99; colormap_modes is
\* [given |-> FALSE] for None
colorize_pseudocolor_multiple(registry, img_rgb, colormap_modes) ==
    pseudocolor_loop(registry, img_rgb,
                     IF colormap_modes.given THEN colormap_modes.value
                     ELSE DefaultModes,
                     <<>>, <<>>)

\* get_available_colormaps, lines 102-109
get_available_colormaps(registry) ==
    Return(keys(registry), [registry |-> registry], <<>>)

\* A registry that learns every unknown name colorize_pseudocolor is given
registry_learning(registry, fn, args) ==
    IF fn = "colorize_pseudocolor" /\ ~has_key(registry, lower(args.colormap_mode))
    THEN Append(registry, <<lower(args.colormap_mode), "cm.jet">>)
    ELSE registry

\* The registry after a call of one of the functions: none of them assigns
\* to COLORMAP_MODES or stores into it.
registry_after_call(registry, fn, args) == registry

(***************************************************************************)
(* Inputs                                                                  *)
(***************************************************************************)
\* the widest single-channel image
MaxW == 2

\* Samples of a field already in the unit range, one of them below 0
UnitSamples == {R(-1, 2), Z(0), R(1, 4), R(1, 2), Z(1)}

\* Samples of a raw field, one of them above 255 and one below 0
RawSamples == {Z(0), Z(51), Z(255), Z(510), Z(-255)}

RowsOver(S) == UNION {[1..w -> S] : w \in 1..MaxW}

\* (1, W) images, of samples already in the unit range or of raw samples.
\* Under binary32 the samples are those of the unit range, all of them
\* binary32 values.
GrayImages ==
    {Array(<<1, Len(d)>>, d) :
        d \in RowsOver(UnitSamples) \cup
              (IF fp = "exact" THEN RowsOver(RawSamples) ELSE {})}

\* (1, 1, 3) images: black, red, cyan, grey and white, unit and raw.  Only
\* under exact arithmetic: the order in which rgb2gray sums its three
\* products is the library's, and under binary32 the sum depends on it.
RgbImages ==
    IF fp = "exact"
    THEN {Array(<<1, 1, 3>>, d) :
            d \in {<<Z(0), Z(0), Z(0)>>, <<Z(1), Z(0), Z(0)>>, <<Z(0), Z(1), Z(1)>>,
                   <<R(1, 2), R(1, 2), R(1, 2)>>, <<Z(255), Z(0), Z(0)>>,
                   <<Z(0), Z(255), Z(255)>>, <<Z(255), Z(255), Z(255)>>,
                   <<Z(510), Z(510), Z(510)>>}}
    ELSE {}

\* Fields no colorizer accepts: empty, with a zero dimension, or with 2 or
\* 4 channels
InvalidImages ==
    {Array(<<0, 0>>, <<>>), Array(<<0, 2>>, <<>>), Array(<<1, 0, 3>>, <<>>),
     Array(<<1, 1, 2>>, <<R(1, 2), R(1, 4)>>),
     Array(<<1, 1, 4>>, <<Z(255), Z(0), Z(0), Z(255)>>)}

Images == GrayImages \cup RgbImages \cup InvalidImages

HueShifts == {Z(0), R(1, 2), Z(1)}

Boosts == {Z(-1), R(1, 2), Z(1), Z(2)}

ModeNames == {name_jet, name_JET, name_hot, name_viridis, name_parula, name_sepia}

ModeLists ==
    {[given |-> FALSE]} \cup
    {[given |-> TRUE, value |-> l] :
        l \in {<<>>, <<name_jet, name_hot>>, <<name_hot, name_jet>>,
               <<name_sepia, name_JET>>, <<name_jet, name_sepia, name_jet>>}}

\* The sector sequences a call may meet
CastsFor(img_rgb, H_channel) ==
    IF InputError(img_rgb) # "none" THEN {<<>>} ELSE Casts(H_channel)

(***************************************************************************)
(* The state machine: a caller that calls the five functions in any order  *)
(***************************************************************************)
Init ==
    /\ fp \in {"exact", "binary32"}
    /\ COLORMAP_MODES = RegistryAtImport
    /\ stdout = <<>>
    /\ pc = "idle"
    /\ call = [fn |-> "none"]
    /\ ret = [kind |-> "none"]
    /\ locals = <<>>

\* The call ends as outcome says.
Finish(c, outcome) ==
    /\ pc' = "returned"
    /\ call' = c
    /\ ret' = outcome.ret
    /\ locals' = outcome.locals
    /\ stdout' = outcome.prints
    /\ COLORMAP_MODES' = registry_after_call(COLORMAP_MODES, c.fn, c)
    /\ UNCHANGED fp

CallColorizeHsv ==
    /\ pc = "idle"
    /\ \E img \in Images :
          \E cast \in CastsFor(img, HueOf(img)) :
              Finish([fn |-> "colorize_hsv", img_rgb |-> img],
                     colorize_hsv(img, cast))

CallColorizeHsvAdvanced ==
    /\ pc = "idle"
    /\ \E img \in Images, hue_shift \in HueShifts, saturation_boost \in Boosts :
          \E cast \in CastsFor(img, HueAdvancedOf(img, hue_shift)) :
              Finish([fn |-> "colorize_hsv_advanced", img_rgb |-> img,
                      hue_shift |-> hue_shift, saturation_boost |-> saturation_boost],
                     colorize_hsv_advanced(img, hue_shift, saturation_boost, cast))

CallColorizePseudocolor ==
    /\ pc = "idle"
    /\ \E img \in Images, colormap_mode \in ModeNames :
          Finish([fn |-> "colorize_pseudocolor", img_rgb |-> img,
                  colormap_mode |-> colormap_mode],
                 colorize_pseudocolor(COLORMAP_MODES, img, colormap_mode))

CallColorizePseudocolorMultiple ==
    /\ pc = "idle"
    /\ \E img \in Images, colormap_modes \in ModeLists :
          Finish([fn |-> "colorize_pseudocolor_multiple", img_rgb |-> img,
                  colormap_modes |-> colormap_modes],
                 colorize_pseudocolor_multiple(COLORMAP_MODES, img, colormap_modes))

CallGetAvailableColormaps ==
    /\ pc = "idle"
    /\ Finish([fn |-> "get_available_colormaps"],
           get_available_colormaps(COLORMAP_MODES))

\* The caller takes the outcome and what was printed, and goes on to its
\* next call.
Resume ==
    /\ pc = "returned"
    /\ pc' = "idle"
    /\ call' = [fn |-> "none"]
    /\ ret' = [kind |-> "none"]
    /\ locals' = <<>>
    /\ stdout' = <<>>
    /\ UNCHANGED <<fp, COLORMAP_MODES>>

Next ==
    \/ CallColorizeHsv
    \/ CallColorizeHsvAdvanced
    \/ CallColorizePseudocolor
    \/ CallColorizePseudocolorMultiple
    \/ CallGetAvailableColormaps
    \/ Resume

Spec == Init /\ [][Next]_vars

(***************************************************************************)
(* The claims.  Each is a predicate of the state a call has just left:     *)
(* call holds the arguments, ret the outcome, locals the local variables   *)
(* and stdout the lines printed.                                           *)
(***************************************************************************)
Colorizers == {"colorize_hsv", "colorize_hsv_advanced", "colorize_pseudocolor"}

\* |a - b| <= 10^-6
Close(a, b) == Abs(RSub(a, b)[1]) <= RSub(a, b)[2] \div 1000000

\* C1: every sample of the RGB field that colorize_hsv, colorize_hsv_advanced
\* or colorize_pseudocolor returns lies in [0,1], whatever the range of the
\* input samples and whatever the parameters.
C1_OutputInUnitRange ==
    (call.fn \in Colorizers /\ ret.kind = "return")
        => \A i \in DOMAIN ret.value.data : InUnit(ret.value.data[i])

\* colorize_hsv returned for an input with a sample of 510, which converts
\* to 18 and is returned as 1.
C1_Witness ==
    /\ call.fn = "colorize_hsv"
    /\ ret.kind = "return"
    /\ call.img_rgb.data = <<Z(510)>>
    /\ ret.value.data = <<Z(1), Z(1), Z(1)>>

\* C2: for a valid image and a name that is, lower-cased, no key of the
\* registry, colorize_pseudocolor returns, prints the warning, and returns
\* the field it returns for the same image and "jet".
C2_UnknownNameFallsBackToJet ==
    (/\ call.fn = "colorize_pseudocolor"
     /\ InputError(call.img_rgb) = "none"
     /\ ~has_key(COLORMAP_MODES, lower(call.colormap_mode)))
        => /\ ret.kind = "return"
           /\ stdout = <<warning(call.colormap_mode)>>
           /\ ret.value =
                colorize_pseudocolor(COLORMAP_MODES, call.img_rgb, name_jet).ret.value

\* colorize_pseudocolor returned for the unknown name "sepia" and a raw
\* three-channel image, having printed one line.
C2_Witness ==
    /\ call.fn = "colorize_pseudocolor"
    /\ call.colormap_mode = name_sepia
    /\ call.img_rgb.shape = <<1, 1, 3>>
    /\ ret.kind = "return"
    /\ Len(stdout) = 1

\* C3: for a valid image, colorize_pseudocolor_multiple returns a mapping
\* whose keys are exactly the names of the list as passed (jet, hot,
\* viridis, plasma when no list is given), each with the field
\* colorize_pseudocolor returns for that name; the mapping is a function of
\* the set of names, so the order of the list does not matter.
C3_BatchIsOneCallPerName ==
    (call.fn = "colorize_pseudocolor_multiple" /\ InputError(call.img_rgb) = "none")
        => LET names == IF call.colormap_modes.given
                        THEN Range(call.colormap_modes.value)
                        ELSE {name_jet, name_hot, name_viridis, name_plasma}
           IN  /\ ret.kind = "return"
               /\ Len(ret.value) = Cardinality(names)
               /\ Range(ret.value) =
                    {<<n, colorize_pseudocolor(COLORMAP_MODES, call.img_rgb,
                                               n).ret.value>> : n \in names}

\* colorize_pseudocolor_multiple returned two entries for the list
\* ["sepia", "JET"], keyed as passed.
C3_Witness ==
    /\ call.fn = "colorize_pseudocolor_multiple"
    /\ call.colormap_modes = [given |-> TRUE, value |-> <<name_sepia, name_JET>>]
    /\ ret.kind = "return"
    /\ Len(ret.value) = 2
    /\ ret.value[2][1] = name_JET

\* C4 as stated: a colorize operation called with a field that is empty,
\* has a dimension of length zero, or has neither 1 nor 3 channels ends in
\* the error InvalidImageError.
C4_InvalidInputRaisesInvalidImageError ==
    (/\ call.fn \in Colorizers
     /\ \/ size(call.img_rgb) = 0
        \/ (ndim(call.img_rgb) = 3 /\ call.img_rgb.shape[3] \notin {1, 3}))
        => ret.kind = "raise" /\ ret.exc = "InvalidImageError"

\* C4, amended: a colorize operation called with such a field ends in an
\* error and returns no image; the error is the ValueError that
\* ndarray.max() or rgb2gray raises.
C4_InvalidInputRaisesValueError ==
    (/\ call.fn \in Colorizers
     /\ \/ size(call.img_rgb) = 0
        \/ (ndim(call.img_rgb) = 3 /\ call.img_rgb.shape[3] \notin {1, 3}))
        => ret.kind = "raise" /\ ret.exc = "ValueError"

\* colorize_pseudocolor was called with a four-channel field and raised.
C4_Witness ==
    /\ call.fn = "colorize_pseudocolor"
    /\ call.img_rgb.shape = <<1, 1, 4>>
    /\ ret.kind = "raise"
    /\ ret.by = "rgb2gray"

\* C5 as stated: the normalized field has every sample in [0,1], for every
\* input field.
C5_NormalizedInUnitRange ==
    (call.fn \in Colorizers /\ ret.kind = "return")
        => \A i \in DOMAIN locals.img_rgb_normalized.data :
              InUnit(locals.img_rgb_normalized.data[i])

\* C5, amended: the normalized field has every sample in [0,1] for every
\* input field whose samples lie in [0,255].
C5_NormalizedInUnitRangeOf8Bit ==
    (/\ call.fn \in Colorizers
     /\ ret.kind = "return"
     /\ \A i \in DOMAIN call.img_rgb.data :
           RLe(Z(0), call.img_rgb.data[i]) /\ RLe(call.img_rgb.data[i], Z(255)))
        => \A i \in DOMAIN locals.img_rgb_normalized.data :
              InUnit(locals.img_rgb_normalized.data[i])

\* colorize_hsv normalized the raw field [[51, 255]] to [[1/5, 1]].
C5_Witness ==
    /\ call.fn = "colorize_hsv"
    /\ ret.kind = "return"
    /\ call.img_rgb.data = <<Z(51), Z(255)>>
    /\ locals.img_rgb_normalized.data = <<R(1, 5), Z(1)>>

\* C6: in each of the three colorize operations the normalized field is
\* the input with every sample divided by 255 when some sample of the input
\* exceeds 1.0, and the input itself otherwise.
C6_DividesBy255IffMaxAboveOne ==
    (call.fn \in Colorizers /\ size(call.img_rgb) # 0)
        => locals.img_rgb_normalized =
             Array(call.img_rgb.shape,
                   [i \in DOMAIN call.img_rgb.data |->
                       IF \E k \in DOMAIN call.img_rgb.data :
                              RLt(Z(1), call.img_rgb.data[k])
                       THEN Rnd(RDiv(call.img_rgb.data[i], Z(255)))
                       ELSE call.img_rgb.data[i]])

\* colorize_pseudocolor normalized [[-255, 255]]: the sample below 1 was
\* divided with the one above.
C6_Witness ==
    /\ call.fn = "colorize_pseudocolor"
    /\ call.img_rgb.data = <<Z(-255), Z(255)>>
    /\ locals.img_rgb_normalized.data = <<Z(-1), Z(1)>>

\* C7 as stated: colorize_hsv_advanced with hue_shift = 1.0 returns exactly
\* the field it returns with hue_shift = 0.0.
C7_ShiftOneIsShiftZero ==
    (/\ call.fn = "colorize_hsv_advanced"
     /\ call.hue_shift = Z(1)
     /\ ret.kind = "return")
        => \A cast \in Casts(HueAdvancedOf(call.img_rgb, Z(0))) :
              ret.value =
                colorize_hsv_advanced(call.img_rgb, Z(0), call.saturation_boost,
                                      cast).ret.value

\* C7, amended: colorize_hsv_advanced with hue_shift = 1.0 returns the
\* field it returns with hue_shift = 0.0 up to the float32 rounding of the
\* shifted hue: the fields have the same shape and corresponding samples
\* differ by at most 10^-6 (by nothing under exact arithmetic).
C7_ShiftOneIsShiftZeroUpToRounding ==
    (/\ call.fn = "colorize_hsv_advanced"
     /\ call.hue_shift = Z(1)
     /\ ret.kind = "return")
        => \A cast \in Casts(HueAdvancedOf(call.img_rgb, Z(0))) :
              LET unshifted ==
                    colorize_hsv_advanced(call.img_rgb, Z(0), call.saturation_boost,
                                          cast).ret.value
              IN  /\ unshifted.shape = ret.value.shape
                  /\ \A i \in DOMAIN ret.value.data :
                        Close(ret.value.data[i], unshifted.data[i])
                  /\ fp = "exact" => unshifted = ret.value

\* colorize_hsv_advanced returned for [[0.5]] and hue_shift = 1.0 under
\* binary32, where the hue 1.375 is rounded before the modulo.
C7_Witness ==
    /\ fp = "binary32"
    /\ call.fn = "colorize_hsv_advanced"
    /\ call.hue_shift = Z(1)
    /\ call.saturation_boost = Z(1)
    /\ call.img_rgb.data = <<R(1, 2)>>
    /\ ret.kind = "return"
    /\ locals.H_channel = <<R(3, 8)>>

\* C8: colorize_hsv returns the field colorize_hsv_advanced returns for the
\* same image with hue_shift = 0 and saturation_boost = 1.
C8_BasicIsAdvancedAtDefaults ==
    (call.fn = "colorize_hsv" /\ ret.kind = "return")
        => \A cast \in Casts(HueAdvancedOf(call.img_rgb, Z(0))) :
              ret.value =
                colorize_hsv_advanced(call.img_rgb, Z(0), Z(1), cast).ret.value

\* colorize_hsv returned for an image with a sample of -1/2: its hue 0.825
\* is left as it is and its saturation -3 is not clipped.
C8_Witness ==
    /\ call.fn = "colorize_hsv"
    /\ ret.kind = "return"
    /\ fp = "exact"
    /\ call.img_rgb.data = <<R(-1, 2), R(1, 4)>>
    /\ locals.S_channel[1] = Z(-3)

\* C9: in colorize_hsv_advanced the saturation of a pixel of intensity I in
\* [0,1] lies in [0,1] for every saturation_boost; it is 0 at I = 0 and at
\* I = 1, and 1 at I = 0.5 when saturation_boost >= 1.
C9_SaturationClamped ==
    (call.fn = "colorize_hsv_advanced" /\ ret.kind = "return")
        => \A j \in DOMAIN locals.S_channel :
              /\ InUnit(locals.img_gray.data[j]) => InUnit(locals.S_channel[j])
              /\ locals.img_gray.data[j] \in {Z(0), Z(1)}
                    => locals.S_channel[j] = Z(0)
              /\ (/\ locals.img_gray.data[j] = R(1, 2)
                  /\ RLe(Z(1), call.saturation_boost))
                    => locals.S_channel[j] = Z(1)

\* colorize_hsv_advanced returned for saturation_boost = 2 and a pixel of
\* intensity 0.5, whose saturation 2 was clipped to 1.
C9_Witness ==
    /\ call.fn = "colorize_hsv_advanced"
    /\ ret.kind = "return"
    /\ call.saturation_boost = Z(2)
    /\ locals.img_gray.data = <<R(1, 2)>>
    /\ locals.S_channel = <<Z(1)>>

\* C10: after any sequence of calls the registry is the one built at
\* import, and get_available_colormaps returns its names in its order: a
\* non-empty list with jet, hot and viridis in it.
C10_RegistryNeverChanges ==
    /\ COLORMAP_MODES = RegistryAtImport
    /\ call.fn = "get_available_colormaps"
          => /\ ret.kind = "return"
             /\ ret.value = keys(RegistryAtImport)
             /\ ret.value # <<>>
             /\ {name_jet, name_hot, name_viridis} \subseteq Range(ret.value)

\* get_available_colormaps returned the seventeen names.
C10_Witness ==
    /\ call.fn = "get_available_colormaps"
    /\ ret.kind = "return"
    /\ Len(ret.value) = 17
    /\ ret.value[1] = name_jet

====
